---- MODULE Spec2Model ----
(***************************************************************************)
(* Model of src/http/handle.rs: the Handle / Request builder and the       *)
(* translation done by Request::exec onto the transport engine (ffi Easy). *)
(*                                                                         *)
(* Strings are sequences of one-character strings, so that formatting      *)
(* (to_string, the "<name>: <value>" line buffer) is computed, not assumed.*)
(* Option<T> is a sequence of length 0 (None) or 1 (Some).                 *)
(***************************************************************************)
EXTENDS Integers, Sequences, FiniteSets, TLC

VARIABLES
    session,   \* handle.easy: the options stored on the transport session
    pc,        \* "idle" (no Request borrowed), "building", "done" (exec returned)
    req,       \* the Request being built; after exec, the Request exec consumed
    calls,     \* the engine calls issued by the exec of req, in order
    result,    \* Option<Result<Response, ErrCode>>: what exec returned
    hist,      \* header-affecting builder calls made on req, in call order
    uriErrs,   \* the errors of the failing uri() calls made on req, in order
    called,    \* the builder methods chained on req
    stale,     \* whether the session held a custom header list when req was created
    reqsLeft,  \* number of Requests the Handle may still create
    callsLeft, \* number of builder calls that may still be chained
    twin       \* a second Request, from the same factory call on a second fresh
               \* Handle, given the builder calls of req in another order

vars == <<session, pc, req, calls, result, hist, uriErrs, called, stale, reqsLeft, callsLeft,
          twin>>

----------------------------------------------------------------------------
(* Bounds of the model *)

MaxRequests == 2
MaxCalls == 2

----------------------------------------------------------------------------
(* Values *)

None == << >>
Some(x) == << x >>

Ok(x) == << "Ok", x >>
Err(e) == << "Err", e >>

DEFAULT_TIMEOUT_MS == 30000

\* error codes the engine can reject a URL with
UrlErrCodes == {3, 27}
\* error codes the engine can reject another option with
SetoptErrCodes == {48}
\* error codes the engine can end a transfer with
PerformErrCodes == {28}
\* responses the engine can answer perform with (status codes)
Responses == {200}

NUL == "NUL"

Content_Length == << "C","o","n","t","e","n","t","-","L","e","n","g","t","h" >>
Transfer_Encoding == << "T","r","a","n","s","f","e","r","-","E","n","c","o","d","i","n","g" >>
Content_Type == << "C","o","n","t","e","n","t","-","T","y","p","e" >>
Expect == << "E","x","p","e","c","t" >>
chunked_str == << "c","h","u","n","k","e","d" >>
octet_stream == << "a","p","p","l","i","c","a","t","i","o","n","/","o","c","t","e","t","-","s","t","r","e","a","m" >>
DELETE_str == << "D","E","L","E","T","E" >>
colon_space == << ":", " " >>
X_Trace == << "X","-","T","r","a","c","e" >>

\* inputs of the callers
Uris == { << "/","f","o","o" >> }
Lengths == {100}
BodySizes == { None, Some(5) }
Bodies == { [size |-> s] : s \in BodySizes }
ProgressCbs == { "cb" }
HeaderPairs ==
    { << <<"X">>, <<"1">> >>,
      << <<"X">>, <<"2">> >>,
      << <<"x">>, <<"1">> >>,
      << X_Trace, <<"a","b","c">> >>,
      << Content_Type, <<"a","/","b">> >>,
      << Transfer_Encoding, chunked_str >>,
      << Expect, << >> >> }
HeaderLists ==
    { << << <<"X">>, <<"2">> >>, << <<"X">>, <<"1">> >> >>,
      << << <<"x">>, <<"2">> >>, << Content_Type, <<"a","/","b">> >> >> }

----------------------------------------------------------------------------
(* Pure helpers *)

Digits == << "0","1","2","3","4","5","6","7","8","9" >>

RECURSIVE to_string(_)
to_string(n) ==
    IF n < 10 THEN << Digits[n + 1] >>
    ELSE Append(to_string(n \div 10), Digits[(n % 10) + 1])

\* a map that keeps one value per key: insert replaces
append_header_replacing(map, key, val) ==
    [k \in (DOMAIN map) \cup {key} |-> IF k = key THEN << val >> ELSE map[k]]

append_header(map, key, val) ==
    IF key \in DOMAIN map
    THEN [map EXCEPT ![key] = Append(@, val)]
    ELSE [k \in (DOMAIN map) \cup {key} |-> IF k = key THEN << val >> ELSE map[k]]

get_header(name) ==
    IF name \in DOMAIN req.headers THEN Some(req.headers[name]) ELSE None

\* Easy::setopt on success: the session stores the value under the option
easy_setopt(s, opt, val) == [s EXCEPT ![opt] = val]

\* the answers the engine can give to one setopt call
UrlResults == { Ok(0) } \cup { Err(e) : e \in UrlErrCodes }
PerformResults == { Ok(r) : r \in Responses } \cup { Err(e) : e \in PerformErrCodes }

----------------------------------------------------------------------------
(* Handle *)

\* Handle::new: a fresh session with both timeouts set
Handle_new ==
    [ URL |-> None,
      TIMEOUT_MS |-> DEFAULT_TIMEOUT_MS,
      CONNECTTIMEOUT_MS |-> DEFAULT_TIMEOUT_MS,
      FOLLOWLOCATION |-> 0,
      HTTPHEADER |-> << >>,
      HTTPGET |-> 0,
      NOBODY |-> 0,
      POST |-> 0,
      UPLOAD |-> 0,
      CUSTOMREQUEST |-> << >>,
      POSTFIELDSIZE |-> -1,
      INFILESIZE |-> -1 ]

\* no second Request yet
NoTwin ==
    [ start |-> << >>, trace |-> << >>, replayed |-> FALSE, perm |-> << >>,
      req |-> << >>, calls |-> << >>, result |-> None ]

InitHandle ==
    /\ twin = NoTwin
    /\ session = Handle_new
    /\ pc = "idle"
    /\ req = << >>
    /\ calls = << >>
    /\ result = None
    /\ hist = << >>
    /\ uriErrs = << >>
    /\ called = {}
    /\ stale = FALSE

\* one Request, configured by up to MaxCalls chained calls
Init ==
    /\ InitHandle
    /\ reqsLeft = 1
    /\ callsLeft = MaxCalls

\* up to MaxRequests Requests one after another on the same Handle, one
\* chained call among them
InitSession ==
    /\ InitHandle
    /\ reqsLeft = MaxRequests
    /\ callsLeft = 1

----------------------------------------------------------------------------
(* Request: construction and the builder calls *)

Request_new(method) ==
    [ err |-> None,
      method |-> method,
      headers |-> << >>,
      body |-> None,
      body_type |-> FALSE,
      content_type |-> FALSE,
      expect_continue |-> FALSE,
      progress |-> None,
      follow |-> FALSE ]

\* Request::uri, the Request after the engine answered res
uri_req(r, res) ==
    IF res[1] = "Ok" THEN r ELSE [r EXCEPT !.err = Some(res[2])]

\* Request::uri, the session after the engine answered res
uri_session(s, u, res) ==
    IF res[1] = "Ok" THEN easy_setopt(s, "URL", u) ELSE s

\* body that also forgets the body type chosen before it
body_req_resetting(r, b) == [r EXCEPT !.body = Some(b), !.body_type = FALSE]

body_req(r, b) == [r EXCEPT !.body = Some(b)]

content_length_req(r, len) ==
    IF ~r.body_type
    THEN [r EXCEPT !.body_type = TRUE,
                   !.headers = append_header(@, Content_Length, to_string(len))]
    ELSE r

\* chunked without the body_type guard
chunked_req_unguarded(r) ==
    [r EXCEPT !.body_type = TRUE,
              !.headers = append_header(@, Transfer_Encoding, chunked_str)]

chunked_req(r) ==
    IF ~r.body_type
    THEN [r EXCEPT !.body_type = TRUE,
                   !.headers = append_header(@, Transfer_Encoding, chunked_str)]
    ELSE r

expect_continue_req(r) == [r EXCEPT !.expect_continue = TRUE]

header_req(r, name, val) == [r EXCEPT !.headers = append_header(@, name, val)]

RECURSIVE headers_loop(_, _, _)
headers_loop(map, hdrs, i) ==
    IF i > Len(hdrs) THEN map
    ELSE headers_loop(append_header(map, hdrs[i][1], hdrs[i][2]), hdrs, i + 1)

headers_req(r, hdrs) == [r EXCEPT !.headers = headers_loop(@, hdrs, 1)]

progress_req(r, cb) == [r EXCEPT !.progress = Some(cb)]

follow_redirects_req(r, follow) == [r EXCEPT !.follow = follow]

\* a Handle factory: Request::new(self, method).uri(uri) [.body(body)]
Factory(method, u, res, b) ==
    /\ pc \in {"idle", "done"}
    /\ reqsLeft > 0
    /\ reqsLeft' = reqsLeft - 1
    /\ pc' = "building"
    /\ session' = uri_session(session, u, res)
    /\ req' = LET r == uri_req(Request_new(method), res)
              IN  IF b = None THEN r ELSE body_req(r, b[1])
    /\ uriErrs' = IF res[1] = "Err" THEN << res[2] >> ELSE << >>
    /\ hist' = << >>
    /\ calls' = << >>
    /\ result' = None
    /\ called' = {}
    /\ stale' = (session.HTTPHEADER # << >>)
    /\ UNCHANGED <<callsLeft, twin>>

get == \E u \in Uris, res \in UrlResults : Factory("Get", u, res, None)

head == \E u \in Uris, res \in UrlResults : Factory("Head", u, res, None)

post == \E u \in Uris, res \in UrlResults, b \in Bodies : Factory("Post", u, res, Some(b))

put == \E u \in Uris, res \in UrlResults, b \in Bodies : Factory("Put", u, res, Some(b))

delete == \E u \in Uris, res \in UrlResults : Factory("Delete", u, res, None)

\* what every chained builder call shares: the Request is being built
Chained(fn) ==
    /\ pc = "building"
    /\ callsLeft > 0
    /\ callsLeft' = callsLeft - 1
    /\ called' = called \cup {fn}
    /\ UNCHANGED <<pc, calls, result, stale, reqsLeft, twin>>

uri ==
    \E u \in Uris, res \in UrlResults :
        /\ Chained("uri")
        /\ req' = uri_req(req, res)
        /\ session' = uri_session(session, u, res)
        /\ uriErrs' = IF res[1] = "Err" THEN Append(uriErrs, res[2]) ELSE uriErrs
        /\ UNCHANGED hist

body ==
    \E b \in Bodies :
        /\ Chained("body")
        /\ req' = body_req(req, b)
        /\ UNCHANGED <<session, hist, uriErrs>>

content_length ==
    \E len \in Lengths :
        /\ Chained("content_length")
        /\ req' = content_length_req(req, len)
        /\ hist' = Append(hist, [fn |-> "content_length", name |-> << >>, val |-> len])
        /\ UNCHANGED <<session, uriErrs>>

chunked ==
    /\ Chained("chunked")
    /\ req' = chunked_req(req)
    /\ hist' = Append(hist, [fn |-> "chunked", name |-> << >>, val |-> 0])
    /\ UNCHANGED <<session, uriErrs>>

expect_continue ==
    /\ Chained("expect_continue")
    /\ req' = expect_continue_req(req)
    /\ UNCHANGED <<session, hist, uriErrs>>

header ==
    \E p \in HeaderPairs :
        /\ Chained("header")
        /\ req' = header_req(req, p[1], p[2])
        /\ hist' = Append(hist, [fn |-> "header", name |-> p[1], val |-> p[2]])
        /\ UNCHANGED <<session, uriErrs>>

headers ==
    \E hdrs \in HeaderLists :
        /\ Chained("headers")
        /\ req' = headers_req(req, hdrs)
        /\ hist' = hist \o [i \in 1..Len(hdrs) |->
                              [fn |-> "header", name |-> hdrs[i][1], val |-> hdrs[i][2]]]
        /\ UNCHANGED <<session, uriErrs>>

progress ==
    \E cb \in ProgressCbs :
        /\ Chained("progress")
        /\ req' = progress_req(req, cb)
        /\ UNCHANGED <<session, hist, uriErrs>>

follow_redirects ==
    \E follow \in BOOLEAN :
        /\ Chained("follow_redirects")
        /\ req' = follow_redirects_req(req, follow)
        /\ UNCHANGED <<session, hist, uriErrs>>

----------------------------------------------------------------------------
(* Request::exec *)

\* The state exec threads through its steps: the session, the engine calls
\* made so far, the local header map, the value returned (None while exec
\* is still running), and the engine's behaviour: the number of the setopt
\* call it rejects (0: none) and the error code it rejects it with.
ExecStart(r, s, fail, code) ==
    [ session |-> s, calls |-> << >>, headers |-> r.headers, ret |-> None,
      fail |-> fail, code |-> code ]

\* setopt without try!: a rejected option is not returned
try_setopt_unchecked(st, opt, val) ==
    IF st.ret # None THEN st
    ELSE IF st.fail = Len(st.calls) + 1
    THEN [st EXCEPT !.calls = Append(@, [opt |-> opt, res |-> Err(st.code), val |-> val])]
    ELSE [st EXCEPT !.calls = Append(@, [opt |-> opt, res |-> Ok(0), val |-> val]),
                    !.session = easy_setopt(@, opt, val)]

\* try!(handle.easy.setopt(opt, val))
try_setopt(st, opt, val) ==
    IF st.ret # None THEN st
    ELSE IF st.fail = Len(st.calls) + 1
    THEN [st EXCEPT !.calls = Append(@, [opt |-> opt, res |-> Err(st.code), val |-> val]),
                    !.ret = Some(Err(st.code))]
    ELSE [st EXCEPT !.calls = Append(@, [opt |-> opt, res |-> Ok(0), val |-> val]),
                    !.session = easy_setopt(@, opt, val)]

exec_follow(st, r) ==
    IF r.follow THEN try_setopt(st, "FOLLOWLOCATION", 1) ELSE st

\* the deferred error never returned
exec_err_ignored(st, r) == st

exec_err(st, r) ==
    IF st.ret # None THEN st
    ELSE IF r.err # None THEN [st EXCEPT !.ret = Some(Err(r.err[1]))]
    ELSE st

\* no reset of the custom header list
exec_reset_skipped(st) == st

\* Clear custom headers set from the previous request
exec_reset(st) == try_setopt(st, "HTTPHEADER", << >>)

\* DELETE with the custom method set before upload mode
exec_method_upload_last(st, r) ==
    CASE r.method = "Get" -> try_setopt(st, "HTTPGET", 1)
      [] r.method = "Head" -> try_setopt(st, "NOBODY", 1)
      [] r.method = "Post" -> try_setopt(st, "POST", 1)
      [] r.method = "Put" -> try_setopt(st, "UPLOAD", 1)
      [] r.method = "Delete" ->
            LET s1 == try_setopt(st, "CUSTOMREQUEST", DELETE_str)
            IN  IF r.body # None THEN try_setopt(s1, "UPLOAD", 1) ELSE s1

exec_method(st, r) ==
    CASE r.method = "Get" -> try_setopt(st, "HTTPGET", 1)
      [] r.method = "Head" -> try_setopt(st, "NOBODY", 1)
      [] r.method = "Post" -> try_setopt(st, "POST", 1)
      [] r.method = "Put" -> try_setopt(st, "UPLOAD", 1)
      [] r.method = "Delete" ->
            try_setopt(IF r.body # None THEN try_setopt(st, "UPLOAD", 1) ELSE st,
                       "CUSTOMREQUEST", DELETE_str)

\* the local header map, changed only while exec is still running
exec_append(st, key, val) ==
    IF st.ret # None THEN st
    ELSE [st EXCEPT !.headers = append_header(@, key, val)]

\* the body negotiation without the chunked fallback
exec_body_type_sized_only(st, r) ==
    IF ~r.body_type /\ r.body[1].size # None
    THEN CASE r.method = "Post" ->
                  try_setopt(st, "POSTFIELDSIZE", r.body[1].size[1])
           [] r.method \in {"Put", "Delete"} ->
                  try_setopt(st, "INFILESIZE", r.body[1].size[1])
           [] OTHER -> st
    ELSE st

\* a size hint for every method with a body: the upload size unless POST
exec_body_type_hint_any_method(st, r) ==
    IF ~r.body_type
    THEN IF r.body[1].size # None
         THEN CASE r.method = "Post" ->
                       try_setopt(st, "POSTFIELDSIZE", r.body[1].size[1])
                [] OTHER ->
                       try_setopt(st, "INFILESIZE", r.body[1].size[1])
         ELSE exec_append(st, Transfer_Encoding, chunked_str)
    ELSE st

\* the upload-size hint used for every method
exec_body_type_upload_size(st, r) ==
    IF ~r.body_type
    THEN IF r.body[1].size # None
         THEN try_setopt(st, "INFILESIZE", r.body[1].size[1])
         ELSE exec_append(st, Transfer_Encoding, chunked_str)
    ELSE st

exec_body_type(st, r) ==
    IF ~r.body_type
    THEN IF r.body[1].size # None
         THEN CASE r.method = "Post" ->
                       try_setopt(st, "POSTFIELDSIZE", r.body[1].size[1])
                [] r.method \in {"Put", "Delete"} ->
                       try_setopt(st, "INFILESIZE", r.body[1].size[1])
                [] OTHER -> st
         ELSE exec_append(st, Transfer_Encoding, chunked_str)
    ELSE st

\* no default content type
exec_content_type_none(st, r) == st

exec_content_type(st, r) ==
    IF ~r.content_type
    THEN exec_append(st, Content_Type, octet_stream)
    ELSE st

\* the Expect suppression applied whatever the flag
exec_expect_always(st, r) == exec_append(st, Expect, << >>)

exec_expect(st, r) ==
    IF ~r.expect_continue
    THEN exec_append(st, Expect, << >>)
    ELSE st

\* the defaults applied whether or not there is a body
exec_body_unconditional(st, r) ==
    IF r.body = None THEN exec_expect(exec_content_type(st, r), r)
    ELSE exec_expect(exec_content_type(exec_body_type(st, r), r), r)

exec_body(st, r) ==
    IF r.body = None THEN st
    ELSE exec_expect(exec_content_type(exec_body_type(st, r), r), r)

\* Vec::truncate
truncate(buf, len) == IF len < Len(buf) THEN SubSeq(buf, 1, len) ELSE buf

\* the bytes of a C string: those before the first NUL
RECURSIVE c_str(_)
c_str(bytes) ==
    IF bytes = << >> \/ Head(bytes) = NUL THEN << >>
    ELSE << Head(bytes) >> \o c_str(Tail(bytes))

\* ffi::List::push_bytes: the list takes a copy of the C string
push_bytes(list, bytes) == Append(list, c_str(bytes))

\* the value loop without the truncate back to the name prefix
RECURSIVE exec_values_no_truncate(_, _, _, _, _)
exec_values_no_truncate(acc, k, vs, i, dummy) ==
    IF i > Len(vs) THEN acc
    ELSE LET buf1 == (acc.buf \o vs[i]) \o << NUL >>
         IN  exec_values_no_truncate([ list |-> push_bytes(acc.list, buf1), buf |-> buf1 ],
                                     k, vs, i + 1, dummy)

\* for v in v.iter() { ... }: the lines of one name, from value i on
RECURSIVE exec_values(_, _, _, _, _)
exec_values(acc, k, vs, i, dummy) ==
    IF i > Len(vs) THEN acc
    ELSE LET buf1 == (acc.buf \o vs[i]) \o << NUL >>
         IN  exec_values([ list |-> push_bytes(acc.list, buf1),
                           buf |-> truncate(buf1, Len(k) + 2) ],
                         k, vs, i + 1, dummy)

\* for (k, v) in headers.iter() { ... }: order is the map's iteration order
RECURSIVE exec_lines(_, _, _, _)
exec_lines(acc, map, order, i) ==
    IF i > Len(order) THEN acc.list
    ELSE LET k == order[i]
             a1 == [acc EXCEPT !.buf = (@ \o k) \o colon_space]
             a2 == exec_values(a1, k, map[k], 1, 0)
         IN  exec_lines([a2 EXCEPT !.buf = truncate(@, 0)], map, order, i + 1)

\* the header list set even when the map is empty
exec_headers_always(st, order) ==
    IF st.ret # None THEN st
    ELSE try_setopt(st, "HTTPHEADER",
                    exec_lines([list |-> << >>, buf |-> << >>], st.headers, order, 1))

exec_headers(st, order) ==
    IF st.ret # None THEN st
    ELSE IF DOMAIN st.headers # {}
    THEN try_setopt(st, "HTTPHEADER",
                    exec_lines([list |-> << >>, buf |-> << >>], st.headers, order, 1))
    ELSE st

\* handle.easy.perform(body.as_mut(), progress)
exec_perform(st, r, pres) ==
    IF st.ret # None THEN st
    ELSE [st EXCEPT !.calls = Append(@, [opt |-> "perform", res |-> pres,
                                        val |-> << r.body, r.progress >>]),
                    !.ret = Some(pres)]

\* one enumeration of the keys S
RECURSIVE Enumerate(_)
Enumerate(S) ==
    IF S = {} THEN << >>
    ELSE LET x == CHOOSE x \in S : TRUE IN << x >> \o Enumerate(S \ {x})

\* The orders a HashMap over the keys S is taken to iterate in: the rotations
\* of one enumeration, so that every key comes first in some order and any
\* two keys come in both relative orders.
Orders(S) ==
    LET o == Enumerate(S)
        n == Len(o)
    IN  IF n = 0 THEN { << >> }
        ELSE { [i \in 1..n |-> o[((i + k) % n) + 1]] : k \in 1..n }

\* the header map exec serializes: the Request's plus the synthesized ones
exec_map(r) == exec_body(ExecStart(r, Handle_new, 0, 0), r).headers

exec_run(r, s, fail, code, order, pres) ==
    LET s0 == ExecStart(r, s, fail, code)
        s1 == exec_follow(s0, r)
        s2 == exec_err(s1, r)
        s3 == exec_reset(s2)
        s4 == exec_method(s3, r)
        s5 == exec_body(s4, r)
        s6 == exec_headers(s5, order)
    IN  exec_perform(s6, r, pres)

\* the number of setopt calls the exec of r makes when the engine accepts all
exec_setopts(r) ==
    LET rr == [r EXCEPT !.err = None]
    IN  Len(exec_run(rr, Handle_new, 0, 0,
                     Enumerate(DOMAIN exec_map(r)), Ok(0)).calls) - 1

\* what the engine does during one exec: it accepts every option and answers
\* perform, or it rejects the fail-th setopt call
EngineRuns(r) ==
    { [fail |-> 0, code |-> 0, pres |-> p] : p \in PerformResults }
    \cup { [fail |-> k, code |-> c, pres |-> Err(c)] :
             k \in 1..exec_setopts(r), c \in SetoptErrCodes }

\* the iteration orders that make a difference to the run e: all of them
\* when the run reaches the header list, one when exec returns before it
IterOrders(r, e) ==
    LET keys == DOMAIN exec_map(r)
    IN  IF e.fail # 0 /\ (e.fail < exec_setopts(r) \/ r.err # None)
        THEN { Enumerate(keys) }
        ELSE Orders(keys)

exec ==
    /\ pc = "building"
    /\ \E e \in EngineRuns(req) : \E order \in IterOrders(req, e) :
          LET st == exec_run(req, session, e.fail, e.code, order, e.pres)
          IN  /\ session' = st.session
              /\ calls' = st.calls
              /\ result' = st.ret
    /\ pc' = "done"
    /\ UNCHANGED <<req, hist, uriErrs, called, stale, reqsLeft, callsLeft, twin>>

----------------------------------------------------------------------------

Next ==
    \/ get \/ head \/ post \/ put \/ delete
    \/ uri \/ body \/ content_length \/ chunked \/ expect_continue
    \/ header \/ headers \/ progress \/ follow_redirects
    \/ exec

Spec == Init /\ [][Next]_vars

SpecSession == InitSession /\ [][Next]_vars

----------------------------------------------------------------------------
(* The same builder calls on two Requests, in two orders *)

\* the builder calls that configure the translation, with their arguments
BuilderFns ==
    { "body", "header", "expect_continue", "follow_redirects", "progress",
      "content_length", "chunked" }

BuilderCalls(fn) ==
    CASE fn = "body" -> { [fn |-> fn, val |-> b] : b \in Bodies }
      [] fn = "header" -> { [fn |-> fn, val |-> p] : p \in HeaderPairs }
      [] fn = "expect_continue" -> { [fn |-> fn, val |-> 0] }
      [] fn = "follow_redirects" -> { [fn |-> fn, val |-> f] : f \in BOOLEAN }
      [] fn = "progress" -> { [fn |-> fn, val |-> cb] : cb \in ProgressCbs }
      [] fn = "content_length" -> { [fn |-> fn, val |-> len] : len \in Lengths }
      [] fn = "chunked" -> { [fn |-> fn, val |-> 0] }

\* the Request after the builder call c
Apply(r, c) ==
    CASE c.fn = "body" -> body_req(r, c.val)
      [] c.fn = "header" -> header_req(r, c.val[1], c.val[2])
      [] c.fn = "expect_continue" -> expect_continue_req(r)
      [] c.fn = "follow_redirects" -> follow_redirects_req(r, c.val)
      [] c.fn = "progress" -> progress_req(r, c.val)
      [] c.fn = "content_length" -> content_length_req(r, c.val)
      [] c.fn = "chunked" -> chunked_req(r)

\* the orders n calls can be made in
Perms(n) == { p \in [1..n -> 1..n] : \A i, j \in 1..n : i # j => p[i] # p[j] }

\* the Request r after the calls of trace, made in the order perm, from the i-th on
RECURSIVE Replay(_, _, _, _)
Replay(r, trace, perm, i) ==
    IF i > Len(perm) THEN r
    ELSE Replay(Apply(r, trace[perm[i]]), trace, perm, i + 1)

\* a builder call chained on req, remembered for the second Request
builder_call ==
    \E fn \in BuilderFns : \E c \in BuilderCalls(fn) :
        /\ pc = "building"
        /\ ~twin.replayed
        /\ callsLeft > 0
        /\ callsLeft' = callsLeft - 1
        /\ req' = Apply(req, c)
        /\ twin' = [twin EXCEPT !.start = IF twin.trace = << >> THEN req ELSE @,
                                !.trace = Append(@, c)]
        /\ UNCHANGED <<session, pc, calls, result, hist, uriErrs, called, stale, reqsLeft>>

\* the second Request: the same factory call, its URI accepted too, then the
\* same builder calls in the order perm
replay ==
    \E perm \in Perms(Len(twin.trace)) :
        /\ pc = "building"
        /\ req.err = None
        /\ ~twin.replayed
        /\ twin' = [twin EXCEPT
                       !.replayed = TRUE,
                       !.perm = perm,
                       !.req = Replay(IF twin.trace = << >> THEN req ELSE twin.start,
                                      twin.trace, perm, 1)]
        /\ UNCHANGED <<session, pc, req, calls, result, hist, uriErrs, called, stale,
                       reqsLeft, callsLeft>>

\* exec of both Requests, each on its own Handle, the engine accepting every
\* option and answering both performs alike
exec_both ==
    \E pres \in PerformResults :
        /\ pc = "building"
        /\ twin.replayed
        /\ \E a \in { exec_run(req, session, 0, 0, Enumerate(DOMAIN exec_map(req)), pres) } :
           \E b \in { exec_run(twin.req, session, 0, 0,
                               Enumerate(DOMAIN exec_map(twin.req)), pres) } :
               /\ session' = a.session
               /\ calls' = a.calls
               /\ result' = a.ret
               /\ twin' = [twin EXCEPT !.calls = b.calls, !.result = b.ret]
        /\ pc' = "done"
        /\ UNCHANGED <<req, hist, uriErrs, called, stale, reqsLeft, callsLeft>>

NextOrder ==
    \/ get \/ head \/ post \/ put \/ delete
    \/ builder_call
    \/ replay
    \/ exec_both

SpecOrder == Init /\ [][NextOrder]_vars

----------------------------------------------------------------------------
(* What the claims speak of *)

Names == { <<"X">>, <<"x">>, X_Trace, Content_Type, Content_Length, Transfer_Encoding, Expect }

\* the decimal string of a length the callers pass
Decimal(n) == IF n = 100 THEN << "1","0","0" >> ELSE << >>

\* the values passed to header(name, v) and headers(...) for name, in call order
RECURSIVE Passed(_, _)
Passed(h, name) ==
    IF h = << >> THEN << >>
    ELSE (IF Head(h).fn = "header" /\ Head(h).name = name THEN << Head(h).val >> ELSE << >>)
         \o Passed(Tail(h), name)

\* the content_length() and chunked() calls, in call order
BodyTypeCalls(h) == SelectSeq(h, LAMBDA c : c.fn \in {"content_length", "chunked"})

\* the values the caller appended under name, in call order: those passed to
\* header and headers, and the one of the first content_length or chunked call
RECURSIVE Appended(_, _, _)
Appended(h, name, set) ==
    IF h = << >> THEN << >>
    ELSE LET c == Head(h)
         IN  CASE c.fn = "header" ->
                    (IF c.name = name THEN << c.val >> ELSE << >>)
                    \o Appended(Tail(h), name, set)
               [] c.fn = "content_length" ->
                    (IF ~set /\ name = Content_Length THEN << Decimal(c.val) >> ELSE << >>)
                    \o Appended(Tail(h), name, TRUE)
               [] c.fn = "chunked" ->
                    (IF ~set /\ name = Transfer_Encoding THEN << chunked_str >> ELSE << >>)
                    \o Appended(Tail(h), name, TRUE)

RECURSIVE TotalAppended(_, _)
TotalAppended(h, S) ==
    IF S = {} THEN 0
    ELSE LET n == CHOOSE n \in S : TRUE
         IN  Len(Appended(h, n, FALSE)) + TotalAppended(h, S \ {n})

Line(name, val) == (name \o colon_space) \o val

LineHasName(line, name) ==
    /\ Len(line) >= Len(name) + 2
    /\ SubSeq(line, 1, Len(name) + 2) = name \o colon_space

Count(list, line) == Cardinality({ i \in DOMAIN list : list[i] = line })

CountName(list, name) == Cardinality({ i \in DOMAIN list : LineHasName(list[i], name) })

\* the header block exec handed to the engine
HandedAt == { i \in DOMAIN calls : calls[i].opt = "HTTPHEADER" /\ calls[i].val # << >> }
Handed == pc = "done" /\ HandedAt # {}
Block == calls[CHOOSE i \in HandedAt : TRUE].val

\* exec reached the engine's perform
Performed == pc = "done" /\ calls # << >> /\ calls[Len(calls)].opt = "perform"

\* a line the caller appended
IsCallerLine(line) ==
    \E name \in Names :
        \E j \in DOMAIN Appended(hist, name, FALSE) :
            line = Line(name, Appended(hist, name, FALSE)[j])

HasBody == req.body # None

----------------------------------------------------------------------------
(* C1 *)

\* C1 as stated: get_header(name) returns exactly the values passed to
\* header(name, v) and headers(...) for that exact name, in call order, and
\* absent for a name never passed.
C1_Original ==
    pc # "idle" =>
        \A name \in Names :
            get_header(name) =
                IF Passed(hist, name) = << >> THEN None ELSE Some(Passed(hist, name))

\* C1 as amended: get_header(name) returns exactly the values appended under
\* that exact, case-sensitive name, in call order: those passed to header and
\* headers, and the value of the first content_length (under Content-Length)
\* or chunked (under Transfer-Encoding) call; a name never appended is absent.
C1_GetHeader ==
    pc # "idle" =>
        \A name \in Names :
            get_header(name) =
                IF Appended(hist, name, FALSE) = << >> THEN None
                ELSE Some(Appended(hist, name, FALSE))

C1_Witness ==
    /\ pc = "building"
    /\ Passed(hist, <<"X">>) = << <<"1">>, <<"2">> >>
    /\ get_header(<<"X">>) = Some(<< <<"1">>, <<"2">> >>)
    /\ get_header(<<"x">>) = None

----------------------------------------------------------------------------
(* C2 *)

\* C2: of the content_length and chunked calls on one request only the first
\* takes effect. After any such call body_type is set; if the first was
\* content_length(n) the headers hold Content-Length: n once and no
\* Transfer-Encoding: chunked but the caller's own; if the first was chunked the
\* headers hold no Content-Length and one Transfer-Encoding: chunked beside the
\* caller's own; later calls of either kind change nothing.
C2_FirstBodyTypeSticks ==
    (pc # "idle") =>
        LET bt == BodyTypeCalls(hist)
            own == Len(Passed(hist, Transfer_Encoding))
            te == IF Transfer_Encoding \in DOMAIN req.headers
                  THEN Count(req.headers[Transfer_Encoding], chunked_str) ELSE 0
        IN  /\ req.body_type = (bt # << >>)
            /\ bt = << >> => te = own /\ get_header(Content_Length) = None
            /\ (bt # << >> /\ bt[1].fn = "content_length") =>
                   /\ get_header(Content_Length) = Some(<< Decimal(bt[1].val) >>)
                   /\ te = own
            /\ (bt # << >> /\ bt[1].fn = "chunked") =>
                   /\ get_header(Content_Length) = None
                   /\ te = own + 1

C2_Witness ==
    /\ pc = "building"
    /\ Len(hist) = 2
    /\ hist[1].fn = "content_length"
    /\ hist[2].fn = "chunked"
    /\ get_header(Content_Length) = Some(<< << "1","0","0" >> >>)
    /\ get_header(Transfer_Encoding) = None

----------------------------------------------------------------------------
(* C3 *)

\* C3 as stated: exec on a body of unknown size, with neither content_length
\* nor chunked called, hands the engine a header block with exactly one
\* Transfer-Encoding: chunked line and no Content-Length line.
C3_Original ==
    (Handed /\ HasBody /\ req.body[1].size = None /\ BodyTypeCalls(hist) = << >>) =>
        /\ Count(Block, Line(Transfer_Encoding, chunked_str)) = 1
        /\ CountName(Block, Content_Length) = 0

\* C3 as amended: the same, for a request to which the caller also passed no
\* Transfer-Encoding and no Content-Length header through header or headers.
C3_UnsizedBodyChunked ==
    (/\ Handed /\ HasBody /\ req.body[1].size = None /\ BodyTypeCalls(hist) = << >>
     /\ Passed(hist, Transfer_Encoding) = << >>
     /\ Passed(hist, Content_Length) = << >>) =>
        /\ Count(Block, Line(Transfer_Encoding, chunked_str)) = 1
        /\ CountName(Block, Transfer_Encoding) = 1
        /\ CountName(Block, Content_Length) = 0

C3_Witness ==
    /\ Performed /\ Handed /\ HasBody /\ req.body[1].size = None
    /\ req.method = "Put"
    /\ hist = << >>
    /\ Count(Block, Line(Transfer_Encoding, chunked_str)) = 1

----------------------------------------------------------------------------
(* C4 *)

\* C4: exec on a request without a body adds no header of its own: every line
\* of the header block handed to the engine is a line the caller appended, and
\* there are as many lines as the caller appended values.
C4_NoBodyNoSynthesized ==
    (Handed /\ ~HasBody) =>
        /\ \A i \in DOMAIN Block : IsCallerLine(Block[i])
        /\ Len(Block) = TotalAppended(hist, Names)

C4_Witness ==
    /\ Performed /\ Handed /\ ~HasBody
    /\ req.method = "Get"
    /\ Block = << Line(Content_Type, << "a","/","b" >>) >>

----------------------------------------------------------------------------
(* C5 *)

\* C5: exec on a request with a body, to which the caller passed no
\* Content-Type header, hands the engine a header block with exactly one
\* Content-Type line, of value application/octet-stream.
C5_DefaultContentType ==
    (Handed /\ HasBody /\ Passed(hist, Content_Type) = << >>) =>
        /\ CountName(Block, Content_Type) = 1
        /\ Count(Block, Line(Content_Type, octet_stream)) = 1

C5_Witness ==
    /\ Performed /\ Handed /\ HasBody
    /\ Passed(hist, Content_Type) = << >>
    /\ Passed(hist, <<"X">>) # << >>
    /\ Count(Block, Line(Content_Type, octet_stream)) = 1

----------------------------------------------------------------------------
(* C6 *)

\* C6: once the caller has passed a Content-Type header through header or
\* headers, content_type is true, and exec on a request with a body appends no
\* default: the header block has no Content-Type: application/octet-stream
\* line and carries only the caller's Content-Type values.
C6_Claim ==
    (Handed /\ HasBody /\ Passed(hist, Content_Type) # << >>) =>
        /\ req.content_type
        /\ Count(Block, Line(Content_Type, octet_stream)) = 0
        /\ CountName(Block, Content_Type) = Len(Passed(hist, Content_Type))

----------------------------------------------------------------------------
(* C7 *)

\* the empty-valued Expect lines the caller passed
OwnEmptyExpect == Len(SelectSeq(Passed(hist, Expect), LAMBDA v : v = << >>))

\* C7: exec on a request with a body adds one Expect line with an empty value
\* to the header block if and only if expect_continue() was never called on
\* the request; after expect_continue() the block has the caller's own Expect
\* lines and no other.
C7_ExpectSuppressed ==
    (Handed /\ HasBody) =>
        LET gained == Count(Block, Line(Expect, << >>)) - OwnEmptyExpect
        IN  /\ gained \in {0, 1}
            /\ (gained = 1) <=> ("expect_continue" \notin called)
            /\ CountName(Block, Expect) = Len(Passed(hist, Expect)) + gained

C7_Witness ==
    /\ Performed /\ Handed /\ HasBody
    /\ "expect_continue" \in called
    /\ CountName(Block, Expect) = 0
    /\ CountName(Block, Content_Type) = 1

----------------------------------------------------------------------------
(* C8 *)

RECURSIVE TotalValues(_, _)
TotalValues(map, S) ==
    IF S = {} THEN 0
    ELSE LET k == CHOOSE k \in S : TRUE
         IN  Len(map[k]) + TotalValues(map, S \ {k})

\* C8: at each perform the custom header list of the session holds the lines of
\* the request being executed and no other: one line per value of its header
\* map (with the defaults exec adds for a body), so a request without headers
\* of its own performs with an empty list, whatever earlier requests on the
\* Handle left on the session.
C8_NoHeaderLeak ==
    Performed =>
        LET own == exec_map(req)
            list == session.HTTPHEADER
        IN  /\ \A i \in DOMAIN list :
                   \E k \in DOMAIN own : \E j \in DOMAIN own[k] :
                       list[i] = Line(k, own[k][j])
            /\ Len(list) = TotalValues(own, DOMAIN own)
            /\ (DOMAIN req.headers = {} /\ ~HasBody) => list = << >>

C8_Witness ==
    /\ Performed
    /\ stale
    /\ DOMAIN req.headers = {}
    /\ ~HasBody
    /\ session.HTTPHEADER = << >>
    /\ result = Some(Ok(200))

----------------------------------------------------------------------------
(* C9 *)

\* the options of the header reset, the method, the size hints and the header list
ConfigOpts ==
    { "HTTPHEADER", "HTTPGET", "NOBODY", "POST", "UPLOAD", "CUSTOMREQUEST",
      "POSTFIELDSIZE", "INFILESIZE" }

\* C9: when a uri() call on the request failed, exec returns an error and makes
\* no header-reset, method, size-hint or header-list option call and no perform
\* call.
C9_UriErrorShortCircuits ==
    (pc = "done" /\ uriErrs # << >>) =>
        /\ result # None
        /\ result[1][1] = "Err"
        /\ \A i \in DOMAIN calls : calls[i].opt \notin ConfigOpts \cup {"perform"}

C9_Witness ==
    /\ pc = "done"
    /\ uriErrs = << 3 >>
    /\ req.follow
    /\ Len(calls) = 1
    /\ calls[1].opt = "FOLLOWLOCATION"
    /\ result = Some(Err(3))

----------------------------------------------------------------------------
(* C10 *)

\* C10: the deferred error is the error of the first failing uri() call: a
\* later uri() call, failing or not, does not overwrite it, and exec returns it.
C10_Claim ==
    (pc = "done" /\ uriErrs # << >>) =>
        /\ req.err = Some(uriErrs[1])
        /\ calls = << >> => result = Some(Err(uriErrs[1]))

----------------------------------------------------------------------------
(* C11 *)

\* the positions of the calls of option opt in the exec of req
CallsOf(opt) == { i \in DOMAIN calls : calls[i].opt = opt }

\* C11: the exec of a DELETE request with a body issues upload mode and then,
\* directly after it, the custom method DELETE; without a body it issues the
\* custom method DELETE directly after the header reset and never upload mode.
C11_DeleteMethodOrder ==
    (pc = "done" /\ req.method = "Delete") =>
        /\ \A i \in CallsOf("CUSTOMREQUEST") :
               /\ calls[i].val = DELETE_str
               /\ i > 1
               /\ calls[i - 1].opt = (IF HasBody THEN "UPLOAD" ELSE "HTTPHEADER")
        /\ \A i \in CallsOf("UPLOAD") :
               /\ HasBody
               /\ i > 1
               /\ calls[i - 1].opt = "HTTPHEADER"
               /\ calls[i].res = Ok(0) => (i < Len(calls) /\ calls[i + 1].opt = "CUSTOMREQUEST")
        /\ Performed =>
               /\ Cardinality(CallsOf("CUSTOMREQUEST")) = 1
               /\ Cardinality(CallsOf("UPLOAD")) = (IF HasBody THEN 1 ELSE 0)

C11_Witness ==
    /\ Performed
    /\ req.method = "Delete"
    /\ HasBody
    /\ \E i \in CallsOf("UPLOAD") : calls[i + 1].opt = "CUSTOMREQUEST"

----------------------------------------------------------------------------
(* C12 *)

\* the names of the options and of perform, in the order exec called them
OptSeq == [i \in DOMAIN calls |-> calls[i].opt]

\* every engine call of the exec succeeded
AllSucceeded == \A i \in DOMAIN calls : calls[i].res[1] = "Ok"

\* Handle::new().post(uri, body).header("X-Trace", "abc").exec(), the body of
\* known length 5, finished
C12_Scenario ==
    /\ pc = "done"
    /\ req.method = "Post"
    /\ req.body = Some([size |-> Some(5)])
    /\ called = {"header"}
    /\ hist = << [fn |-> "header", name |-> X_Trace, val |-> <<"a","b","c">>] >>
    /\ uriErrs = << >>

\* C12: post(uri, body).header("X-Trace", "abc").exec() with a body of known
\* length N and every engine call succeeding gives the engine POST mode,
\* post-field-size N and a header block of exactly the three lines
\* Content-Type: application/octet-stream, Expect: (empty) and X-Trace: abc,
\* followed by exactly one perform.
C12_PostExample ==
    (C12_Scenario /\ AllSucceeded) =>
        /\ OptSeq = << "HTTPHEADER", "POST", "POSTFIELDSIZE", "HTTPHEADER", "perform" >>
        /\ calls[1].val = << >>
        /\ calls[2].val = 1
        /\ calls[3].val = 5
        /\ Len(calls[4].val) = 3
        /\ Count(calls[4].val, Line(Content_Type, octet_stream)) = 1
        /\ Count(calls[4].val, Line(Expect, << >>)) = 1
        /\ Count(calls[4].val, Line(X_Trace, <<"a","b","c">>)) = 1

C12_Witness == C12_Scenario /\ AllSucceeded /\ Len(calls) = 5 /\ result = Some(Ok(200))

----------------------------------------------------------------------------
(* C13 *)

\* the option calls exec makes after the deferred-error check: the header
\* reset, the method options, the size hints and the header list
IsLateOption(i) == calls[i].opt \in ConfigOpts

\* C13: a failing option call made after the deferred-error check is the
\* last engine call of the exec, perform included, and its failure is the
\* result of exec.
C13_SetoptFailureReturned ==
    pc = "done" =>
        \A i \in DOMAIN calls :
            (IsLateOption(i) /\ calls[i].res[1] = "Err") =>
                /\ i = Len(calls)
                /\ result = Some(calls[i].res)

\* the size hint accepted and the header list rejected
C13_Witness ==
    /\ pc = "done"
    /\ Len(calls) > 2
    /\ calls[Len(calls)].opt = "HTTPHEADER"
    /\ calls[Len(calls)].res = Err(48)
    /\ calls[Len(calls) - 1].opt = "POSTFIELDSIZE"
    /\ result = Some(Err(48))

----------------------------------------------------------------------------
(* C15 *)

\* C15: when the request carries a deferred error, exec returns that error and
\* makes no option call on the session, whatever the value of follow_redirects.
C15_Claim ==
    (pc = "done" /\ req.err # None) =>
        /\ calls = << >>
        /\ result = Some(Err(req.err[1]))

----------------------------------------------------------------------------
(* C16 *)

\* the method options of the request, in order
MethodOpts ==
    CASE req.method = "Get" -> << "HTTPGET" >>
      [] req.method = "Head" -> << "NOBODY" >>
      [] req.method = "Post" -> << "POST" >>
      [] req.method = "Put" -> << "UPLOAD" >>
      [] req.method = "Delete" ->
            (IF HasBody THEN << "UPLOAD" >> ELSE << >>) \o << "CUSTOMREQUEST" >>

\* the size hint of the request, if any
SizeOpts ==
    IF HasBody /\ BodyTypeCalls(hist) = << >> /\ req.body[1].size # None
    THEN CASE req.method = "Post" -> << "POSTFIELDSIZE" >>
           [] req.method \in {"Put", "Delete"} -> << "INFILESIZE" >>
           [] OTHER -> << >>
    ELSE << >>

\* the multimap is non-empty at the header step: the caller appended a
\* header, or there is a body and exec appended its defaults
MapNonEmpty == TotalAppended(hist, Names) > 0 \/ HasBody

\* C16: in every exec that reaches perform the engine calls are, in this
\* order: the redirect option (only if follow_redirects is true), the header
\* reset, the method option(s), the size hint (if any), the header list (only
\* if the multimap is non-empty) and perform; perform is called once, last,
\* and its result is the result of exec.
C16_CallOrder ==
    Performed =>
        /\ OptSeq = (IF req.follow THEN << "FOLLOWLOCATION" >> ELSE << >>)
                    \o << "HTTPHEADER" >>
                    \o MethodOpts
                    \o SizeOpts
                    \o (IF MapNonEmpty THEN << "HTTPHEADER" >> ELSE << >>)
                    \o << "perform" >>
        /\ result = Some(calls[Len(calls)].res)

\* a perform after all six steps made a call
C16_Witness ==
    /\ Performed
    /\ OptSeq = << "FOLLOWLOCATION", "HTTPHEADER", "UPLOAD", "INFILESIZE",
                   "HTTPHEADER", "perform" >>
    /\ result = Some(Err(28))

----------------------------------------------------------------------------
(* C17 *)

\* the lines of the block that start with "<name>: ", in block order
LinesOf(name) == SelectSeq(Block, LAMBDA line : LineHasName(line, name))

\* C17: the header block has exactly one line per (name, value) pair of the
\* multimap: the lines of a name with k values are the k lines
\* "<name>: <value>" of its values, and the number of lines is the number of
\* values, so no line carries bytes of another name or value.
C17_OneLinePerValue ==
    Handed =>
        LET map == exec_map(req)
        IN  /\ \A k \in DOMAIN map :
                   LinesOf(k) = [j \in DOMAIN map[k] |-> Line(k, map[k][j])]
            /\ Len(Block) = TotalValues(map, DOMAIN map)

\* a block of several names, one of them with two different values
C17_Witness ==
    /\ Handed
    /\ Cardinality(DOMAIN exec_map(req)) >= 3
    /\ \E k \in DOMAIN exec_map(req) :
           /\ Len(exec_map(req)[k]) = 2
           /\ exec_map(req)[k][1] # exec_map(req)[k][2]
           /\ Len(LinesOf(k)) = 2

----------------------------------------------------------------------------
(* C18 *)

\* the size hints exec set: option and value, in call order
SizeHints ==
    LET at == SelectSeq([i \in DOMAIN calls |-> i],
                        LAMBDA i : calls[i].opt \in {"POSTFIELDSIZE", "INFILESIZE"})
    IN  [j \in DOMAIN at |-> << calls[at[j]].opt, calls[at[j]].val >>]

\* exec appended no Transfer-Encoding header: the block has the lines of
\* that name the caller appended and no other
NoTransferEncodingAppended ==
    LinesOf(Transfer_Encoding)
        = [j \in DOMAIN Appended(hist, Transfer_Encoding, FALSE) |->
               Line(Transfer_Encoding, Appended(hist, Transfer_Encoding, FALSE)[j])]

\* C18: an exec with a body of known length N and body_type_set false sets
\* the post-field-size hint to N for POST, the upload-size hint to N for PUT
\* and DELETE and no size hint for any other method, and appends no
\* Transfer-Encoding header; with body_type_set true it sets no size hint and
\* appends no Transfer-Encoding header, whatever the body's size.
C18_SizeHint ==
    (Performed /\ HasBody) =>
        /\ (BodyTypeCalls(hist) = << >> /\ req.body[1].size # None) =>
               /\ SizeHints =
                      CASE req.method = "Post" ->
                               << << "POSTFIELDSIZE", req.body[1].size[1] >> >>
                        [] req.method \in {"Put", "Delete"} ->
                               << << "INFILESIZE", req.body[1].size[1] >> >>
                        [] OTHER -> << >>
               /\ NoTransferEncodingAppended
        /\ BodyTypeCalls(hist) # << >> =>
               /\ SizeHints = << >>
               /\ NoTransferEncodingAppended

\* a GET with a sized body performed without a size hint
C18_Witness ==
    /\ Performed
    /\ req.method = "Get"
    /\ req.body = Some([size |-> Some(5)])
    /\ BodyTypeCalls(hist) = << >>
    /\ SizeHints = << >>

\* a PUT with an unsized body and chunked() called before: no hint, one
\* Transfer-Encoding line, the caller's
C18_WitnessTyped ==
    /\ Performed
    /\ req.method = "Put"
    /\ req.body = Some([size |-> None])
    /\ BodyTypeCalls(hist) # << >>
    /\ SizeHints = << >>

----------------------------------------------------------------------------
(* C19 *)

\* C19: at each perform the session's follow-redirects setting equals the
\* follow_redirects flag of the request being executed, whatever earlier
\* requests on the Handle set.
C19_Claim ==
    Performed => (session.FOLLOWLOCATION = (IF req.follow THEN 1 ELSE 0))

----------------------------------------------------------------------------
(* C20 *)

\* C20: at each perform the session's custom-method override is DELETE if and
\* only if the request being executed has method DELETE.
C20_Claim ==
    Performed => ((session.CUSTOMREQUEST = DELETE_str) <=> (req.method = "Delete"))

----------------------------------------------------------------------------
(* C14 *)

\* the option calls of a log: those before perform
OptionCalls(log) == SelectSeq(log, LAMBDA c : c.opt # "perform")

\* two option calls are the same: the same option with the same value, the
\* header list taken as the set of its lines
SameOption(c, d) ==
    /\ c.opt = d.opt
    /\ IF c.opt = "HTTPHEADER"
       THEN { c.val[i] : i \in DOMAIN c.val } = { d.val[i] : i \in DOMAIN d.val }
       ELSE c.val = d.val

SameTranslation(la, lb) ==
    LET oa == OptionCalls(la)
        ob == OptionCalls(lb)
    IN  /\ Len(oa) = Len(ob)
        /\ \A i \in DOMAIN oa : SameOption(oa[i], ob[i])

\* the calls of the given kinds in the trace
CallsOfKind(kinds) == SelectSeq(twin.trace, LAMBDA c : c.fn \in kinds)

\* both Requests were executed and the calls held at most one of
\* content_length/chunked
C14_Scenario ==
    /\ pc = "done"
    /\ twin.replayed
    /\ Len(CallsOfKind({"content_length", "chunked"})) <= 1

\* the calls of one kind all carry the same argument
OneArgument(kind) ==
    \A i, j \in DOMAIN CallsOfKind({kind}) :
        CallsOfKind({kind})[i].val = CallsOfKind({kind})[j].val

\* C14 as stated: two requests on fresh Handles that receive the same builder
\* calls (body, header, expect_continue, follow_redirects, progress, at most
\* one of content_length/chunked) in different orders make exec issue the
\* same sequence of option calls and the same set of header lines.
C14_Original == C14_Scenario => SameTranslation(calls, twin.calls)

\* C14: the same holds when the body calls among them all pass the same body
\* and the follow_redirects calls all pass the same flag.
C14_OrderIndependent ==
    (C14_Scenario /\ OneArgument("body") /\ OneArgument("follow_redirects")) =>
        SameTranslation(calls, twin.calls)

\* two different calls made in the two orders, the multimaps of the two
\* Requests differing
C14_Witness ==
    /\ C14_Scenario
    /\ OneArgument("body") /\ OneArgument("follow_redirects")
    /\ Len(twin.trace) >= 2
    /\ twin.perm[1] # 1
    /\ twin.req # req
    /\ calls # << >>
    /\ calls[Len(calls)].opt = "perform"

====
